---- MODULE Spec2Model ----
(***************************************************************************)
(* Model of the erc20pump log puller (package scanner, logPuller) and of   *)
(* the RPC adapter it drives (package rpc, Adapter).                       *)
(*                                                                         *)
(* One background worker runs logPuller.scan; the owning process calls     *)
(* run and stop; two tickers fire on their own; a downstream consumer      *)
(* reads the output channel.  Every RPC call is an environment choice      *)
(* between its possible outcomes.                                          *)
(*                                                                         *)
(* Block heights are uint64 in the code.  The heights of the model stay    *)
(* below MaxHead + 1 + defaultLogsWindowSize, far from 2^64, so uint64     *)
(* addition is exact on every value the model reaches.                     *)
(***************************************************************************)
EXTENDS Integers, Sequences, FiniteSets, TLC

\* ---------------------------------------------------------------- bounds

\* Highest head height the chain client reports.
MaxHead == 6

\* Highest configured start block.
MaxStart == 1

\* ------------------------------------------------------ program constants

\* const logBufferCapacity = 100
logBufferCapacity == 100

\* const defaultLogsWindowSize = 5
defaultLogsWindowSize == 5

\* sigStop: make(chan bool, 1)
sigStopCapacity == 1

\* ------------------------------------------------------------- addresses

\* common.Address is a 20-byte array; common.Address{} is all zero bytes.
ZeroAddress == [i \in 1..20 |-> 0]

\* Two contract addresses of the chain; they differ in one byte each from the
\* zero address, AddrA in the last byte and AddrB in the first.
AddrA == [i \in 1..20 |-> IF i = 20 THEN 1 ELSE 0]

AddrB == [i \in 1..20 |-> IF i = 1 THEN 1 ELSE 0]

\* bytes.Compare: lexicographic comparison of two byte slices, -1, 0 or 1.
RECURSIVE BytesCompare(_, _)
BytesCompare(a, b) ==
    IF a = <<>> /\ b = <<>> THEN 0
    ELSE IF a = <<>> THEN -1
    ELSE IF b = <<>> THEN 1
    ELSE IF Head(a) < Head(b) THEN -1
    ELSE IF Head(a) > Head(b) THEN 1
    ELSE BytesCompare(Tail(a), Tail(b))

\* contractMatch with the comparison "<= 0" in place of "== 0".
contractMatchLessOrEqual(rc, scanContract) == BytesCompare(rc, scanContract) <= 0

\* contractMatch with the comparison "!= 0" in place of "== 0".
contractMatchInverted(rc, scanContract) == BytesCompare(rc, scanContract) # 0

\* contractMatch: bytes.Compare(rc.Bytes(), cfg.ScanContract.Bytes()) == 0
contractMatch(rc, scanContract) == BytesCompare(rc, scanContract) = 0

\* ------------------------------------------------------------- the chain

\* The ledger.  Four blocks hold log records of interest:
\*   block 1: a contract deployment, with one record
\*   block 2: a transaction to AddrB with one record, then a transaction to
\*            AddrA with two records
\*   block 4: a transaction to AddrA, with one record
\*   block BurstBlock, above every head of MaxHead: one transaction to AddrA
\*            with one record more than the output channel holds
\* A transaction hash is <<block, position in the block>>.

BurstBlock == MaxHead + 2

Hash(b, k) == << b, k >>

Log(b, i, k) == [BlockNumber |-> b, Index |-> i, TxHash |-> Hash(b, k)]

\* The log records of block b, in the order of their Index.
LogsAt(b) ==
    IF b = 1 THEN << Log(b, 0, 0) >>
    ELSE IF b = 2 THEN << Log(b, 0, 0), Log(b, 1, 1), Log(b, 2, 1) >>
    ELSE IF b = 4 THEN << Log(b, 0, 0) >>
    ELSE IF b = BurstBlock THEN [i \in 1..(logBufferCapacity + 1) |-> Log(b, i - 1, 0)]
    ELSE << >>

\* trx.To() of the transaction with the given hash, a pointer: <<a>> for the
\* recipient a, <<>> for nil (a contract deployment).
TrxTo(tx) ==
    IF tx = Hash(2, 0) THEN << AddrB >>
    ELSE IF tx = Hash(2, 1) \/ tx = Hash(4, 0) \/ tx = Hash(BurstBlock, 0) THEN << AddrA >>
    ELSE << >>

\* Adapter.TrxRecipient: the outcomes of one call.  An error comes with the
\* zero address, a deployment is a success with the zero address.
TrxRecipient(tx) ==
    { [err |-> TRUE, addr |-> ZeroAddress],
      [err |-> FALSE, addr |-> IF TrxTo(tx) = <<>> THEN ZeroAddress ELSE TrxTo(tx)[1]] }

\* Adapter.GetLogs on success: the records of the blocks from..to, block by
\* block; none when the range is empty.
RECURSIVE GetLogs(_, _)
GetLogs(from, to) ==
    IF from > to THEN << >> ELSE LogsAt(from) \o GetLogs(from + 1, to)

\* ------------------------------------------------------------------ state

VARIABLES
    cfg,            \* cfg.Config: StartBlock, ScanContract
    pc,             \* where the worker is: idle, select, body, send, done
    output,         \* lp.output, the records in the channel
    closed,         \* how many times lp.output was closed
    topBlock,       \* lp.topBlock
    currentBlock,   \* lp.currentBlock
    sigStop,        \* lp.sigStop, the number of signals in the channel
    wg,             \* the counter of lp.wg
    cache,          \* the recipient cache: TxHash -> address, or NoEntry
    tickC,          \* whether tick.C holds a tick
    infoC,          \* whether info.C holds a tick
    logs,           \* scan's local: the pending batch
    record,         \* scan's local: the record being processed
    emitted,        \* history: every record pushed onto lp.output, in order
    call,           \* history: the nextLogs call of the last iteration, if any
    res,            \* history: the resolution of the last iteration, if any
    scanned,        \* history: per block, the successful requests covering it
    heads,          \* the chain: the head heights the chain client reports
    stopCalled,     \* history: whether a stop() call has returned
    blockedStop,    \* history: whether a stop() call returned while the worker
                    \*          was blocked sending to the full output channel
    refresh,        \* history: the head refresh of this iteration, if any
    headKnown,      \* history: whether a head refresh has succeeded
    lastFail,       \* history: the failed log request that no successful one
                    \*          and no change of topBlock has followed, if any
    processed       \* history: every record passed to process, in order

vars == << cfg, pc, output, closed, topBlock, currentBlock, sigStop, wg, cache,
           tickC, infoC, logs, record, emitted, call, res, scanned,
           heads, stopCalled, blockedStop, refresh, headKnown, lastFail, processed >>

NoEntry == <<>>

\* No nextLogs call in this iteration yet.
NoCall == [kind |-> "none", from |-> 0, to |-> 0, top |-> 0]

\* No failed log request is waiting for its retry.
NoFail == [failed |-> FALSE, retried |-> FALSE, from |-> 0, to |-> 0]

\* No recipient resolution in this iteration yet.
NoRes == [called |-> FALSE, err |-> FALSE, addr |-> ZeroAddress]

\* var record types.Log: the zero value
NoRecord == [BlockNumber |-> 0, Index |-> 0, TxHash |-> << >>]

\* The heights the cursor and the requests of the model range over.
Blocks == 0..(MaxHead + defaultLogsWindowSize + 1)

\* The transactions of the ledger.
TxHashes == UNION { { LogsAt(b)[i].TxHash : i \in 1..Len(LogsAt(b)) } : b \in Blocks }

\* cfg.ScanContract as configured; an unset value is the zero address.
ScanContracts == {AddrA, ZeroAddress}

\* newPuller
Init ==
    /\ cfg \in [StartBlock : 0..MaxStart, ScanContract : ScanContracts]
    /\ pc = "idle"
    /\ output = <<>>
    /\ closed = 0
    /\ topBlock = 0
    /\ currentBlock = cfg.StartBlock
    /\ sigStop = 0
    /\ wg = 0
    /\ cache = [t \in TxHashes |-> NoEntry]
    /\ tickC = FALSE
    /\ infoC = FALSE
    /\ logs = <<>>
    /\ record = NoRecord
    /\ emitted = <<>>
    /\ call = NoCall
    /\ res = NoRes
    /\ scanned = [b \in Blocks |-> 0]
    /\ heads = 0..MaxHead
    /\ stopCalled = FALSE
    /\ blockedStop = FALSE
    /\ refresh = "none"
    /\ headKnown = FALSE
    /\ lastFail = NoFail
    /\ processed = << >>

\* ------------------------------------------------------- owner, environment

\* logPuller.run: wg.Add(1); go lp.scan().  scan starts its two tickers.
Run ==
    /\ pc = "idle"
    /\ wg' = wg + 1
    /\ pc' = "select"
    /\ UNCHANGED << cfg, output, closed, topBlock, currentBlock, sigStop, cache,
                    tickC, infoC, logs, record, emitted, call, res, scanned,
                    heads, stopCalled, blockedStop, refresh, headKnown, lastFail, processed >>

\* stop sending without blocking: the signal is dropped when the channel is full.
StopDropping ==
    /\ sigStop' = (IF sigStop < sigStopCapacity THEN sigStop + 1 ELSE sigStop)
    /\ stopCalled' = TRUE
    /\ blockedStop' = (blockedStop \/ (pc = "send" /\ Len(output) = logBufferCapacity))
    /\ UNCHANGED << cfg, pc, output, closed, topBlock, currentBlock, wg, cache,
                    tickC, infoC, logs, record, emitted, call, res, scanned,
                    heads, refresh, headKnown, lastFail, processed >>

\* logPuller.stop: lp.sigStop <- true; blocks while the channel is full.
Stop ==
    /\ sigStop < sigStopCapacity
    /\ sigStop' = sigStop + 1
    /\ stopCalled' = TRUE
    /\ blockedStop' = (blockedStop \/ (pc = "send" /\ Len(output) = logBufferCapacity))
    /\ UNCHANGED << cfg, pc, output, closed, topBlock, currentBlock, wg, cache,
                    tickC, infoC, logs, record, emitted, call, res, scanned,
                    heads, refresh, headKnown, lastFail, processed >>

Running == pc \in {"select", "body", "send"}

\* The 500 ms ticker puts a tick in tick.C (dropped if one is waiting).
Tick ==
    /\ Running
    /\ ~tickC
    /\ tickC' = TRUE
    /\ UNCHANGED << cfg, pc, output, closed, topBlock, currentBlock, sigStop, wg,
                    cache, infoC, logs, record, emitted, call, res, scanned,
                    heads, stopCalled, blockedStop, refresh, headKnown, lastFail, processed >>

\* The 5 s ticker puts a tick in info.C.
Info ==
    /\ Running
    /\ ~infoC
    /\ infoC' = TRUE
    /\ UNCHANGED << cfg, pc, output, closed, topBlock, currentBlock, sigStop, wg,
                    cache, tickC, logs, record, emitted, call, res, scanned,
                    heads, stopCalled, blockedStop, refresh, headKnown, lastFail, processed >>

\* The downstream consumer receives one record from lp.output.
Consume ==
    /\ output # <<>>
    /\ output' = Tail(output)
    /\ UNCHANGED << cfg, pc, closed, topBlock, currentBlock, sigStop, wg, cache,
                    tickC, infoC, logs, record, emitted, call, res, scanned,
                    heads, stopCalled, blockedStop, refresh, headKnown, lastFail, processed >>

\* ------------------------------------------------------------ the worker

\* The stop case closing the channel without leaving the loop.
TerminatedNoReturn ==
    /\ closed' = closed + 1
    /\ wg' = wg - 1
    /\ pc' = "body"

\* scan's deferred function: close(lp.output), lp.wg.Done().
Terminated ==
    /\ closed' = closed + 1
    /\ wg' = wg - 1
    /\ pc' = "done"

\* select, case <-lp.sigStop: return.  Go's select takes any one of the
\* cases that are ready.
SelectStop ==
    /\ pc = "select"
    /\ sigStop > 0
    /\ sigStop' = sigStop - 1
    /\ Terminated
    /\ call' = NoCall
    /\ res' = NoRes
    /\ UNCHANGED << cfg, output, topBlock, currentBlock, cache, tickC, infoC,
                    logs, record, emitted, scanned,
                    heads, stopCalled, blockedStop, refresh, headKnown, lastFail, processed >>

\* Adapter.TopBlock: the outcomes of one call.  ethclient's BlockNumber
\* returns the zero height together with an error.  The heights it reports
\* without error are those of heads.
TopBlock ==
    { [err |-> FALSE, head |-> h] : h \in heads } \cup { [err |-> TRUE, head |-> 0] }

\* logPuller.fetchHead: lp.topBlock, err = lp.rpc.TopBlock(); the error is
\* only logged.
fetchHead ==
    \E r \in TopBlock :
        /\ topBlock' = r.head
        /\ refresh' = (IF r.err THEN "fail" ELSE "ok")
        /\ headKnown' = (headKnown \/ ~r.err)
        /\ lastFail' = (IF r.head = topBlock THEN lastFail ELSE NoFail)

\* select, case <-tick.C: lp.fetchHead()
SelectTick ==
    /\ pc = "select"
    /\ tickC
    /\ tickC' = FALSE
    /\ fetchHead
    /\ pc' = "body"
    /\ call' = NoCall
    /\ res' = NoRes
    /\ UNCHANGED << cfg, output, closed, currentBlock, sigStop, wg, cache, infoC,
                    logs, record, emitted, scanned,
                    heads, stopCalled, blockedStop, processed >>

\* select, case <-info.C: log the position
SelectInfo ==
    /\ pc = "select"
    /\ infoC
    /\ infoC' = FALSE
    /\ pc' = "body"
    /\ call' = NoCall
    /\ res' = NoRes
    /\ UNCHANGED << cfg, output, closed, topBlock, currentBlock, sigStop, wg, cache,
                    tickC, logs, record, emitted, scanned,
                    heads, stopCalled, blockedStop, refresh, headKnown, lastFail, processed >>

\* select, default: taken only when no other case is ready
SelectDefault ==
    /\ pc = "select"
    /\ sigStop = 0
    /\ ~tickC
    /\ ~infoC
    /\ pc' = "body"
    /\ call' = NoCall
    /\ res' = NoRes
    /\ UNCHANGED << cfg, output, closed, topBlock, currentBlock, sigStop, wg, cache,
                    tickC, infoC, logs, record, emitted, scanned,
                    heads, stopCalled, blockedStop, refresh, headKnown, lastFail, processed >>

\* nextLogs with the guard off by one: the block after the head is pulled.
NothingToPullPastNext(cur, top) == cur > top + 1

\* nextLogs without the guard: a request is sent whatever the cursor.
NothingToPullNever(cur, top) == FALSE

\* nextLogs: if lp.currentBlock > lp.topBlock { return nil }
NothingToPull(cur, top) == cur > top

\* nextLogs: target := lp.currentBlock + defaultLogsWindowSize, cut to topBlock
Target(cur, top) ==
    IF cur + defaultLogsWindowSize > top THEN top ELSE cur + defaultLogsWindowSize

\* nextLogs advancing the cursor to the target itself.
AdvanceToTarget(target) == target

\* nextLogs: lp.currentBlock = target + 1
Advance(target) == target + 1

\* nextLogs, nothing to pull
NextLogsIdle ==
    /\ pc = "body"
    /\ logs = <<>>
    /\ NothingToPull(currentBlock, topBlock)
    /\ logs' = <<>>
    /\ call' = [kind |-> "idle", from |-> currentBlock, to |-> currentBlock, top |-> topBlock]
    /\ pc' = "select"
    /\ refresh' = "none"
    /\ UNCHANGED << cfg, output, closed, topBlock, currentBlock, sigStop, wg, cache,
                    tickC, infoC, record, emitted, res, scanned,
                    heads, stopCalled, blockedStop, headKnown, lastFail, processed >>

\* nextLogs advancing the cursor before it looks at the error.
FailedCursorAdvanced(cur, target) == target + 1

\* nextLogs stepping over the first block of a range that failed.
FailedCursorSkipOne(cur, target) == cur + 1

\* nextLogs, err != nil: lp.currentBlock keeps its value
FailedCursor(cur, target) == cur

\* nextLogs returning the records of the range although the request failed.
FailedBatchKept(from, to) == GetLogs(from, to)

\* nextLogs, err != nil: return nil
FailedBatch(from, to) == << >>

\* nextLogs, lp.rpc.GetLogs fails: return nil
NextLogsFail ==
    /\ pc = "body"
    /\ logs = <<>>
    /\ ~NothingToPull(currentBlock, topBlock)
    /\ LET target == Target(currentBlock, topBlock) IN
        /\ call' = [kind |-> "fail", from |-> currentBlock, to |-> target,
                    top |-> topBlock]
        /\ lastFail' = [failed |-> TRUE, retried |-> lastFail.failed,
                        from |-> currentBlock, to |-> target]
        /\ currentBlock' = FailedCursor(currentBlock, target)
        /\ logs' = FailedBatch(currentBlock, target)
    /\ pc' = "select"
    /\ refresh' = "none"
    /\ UNCHANGED << cfg, output, closed, topBlock, sigStop, wg, cache,
                    tickC, infoC, record, emitted, res, scanned,
                    heads, stopCalled, blockedStop, headKnown, processed >>

\* nextLogs, lp.rpc.GetLogs succeeds: advance the cursor, return the records
NextLogsOk ==
    /\ pc = "body"
    /\ logs = <<>>
    /\ ~NothingToPull(currentBlock, topBlock)
    /\ LET target == Target(currentBlock, topBlock) IN
        /\ logs' = GetLogs(currentBlock, target)
        /\ call' = [kind |-> "ok", from |-> currentBlock, to |-> target,
                    top |-> topBlock]
        /\ scanned' = [b \in Blocks |->
                         IF currentBlock <= b /\ b <= target THEN scanned[b] + 1
                         ELSE scanned[b]]
        /\ currentBlock' = Advance(target)
    /\ pc' = "select"
    /\ refresh' = "none"
    /\ lastFail' = NoFail
    /\ UNCHANGED << cfg, output, closed, topBlock, sigStop, wg, cache,
                    tickC, infoC, record, emitted, res,
                    heads, stopCalled, blockedStop, headKnown, processed >>

\* cache.MemCache.TrxRecipient(hash, fallback): the stored address if there is
\* one; otherwise the fallback is called and an error-free result is stored.
\* Each outcome: the error, the address and the cache afterwards.
CacheTrxRecipient(c, tx) ==
    IF c[tx] # NoEntry
    THEN { [err |-> FALSE, addr |-> c[tx], cache |-> c] }
    ELSE { [err |-> r.err, addr |-> r.addr,
            cache |-> IF r.err THEN c ELSE [c EXCEPT ![tx] = r.addr]]
           : r \in TrxRecipient(tx) }

\* scan taking the last record of the batch in place of the first.
NextRecordLast(l) == l[Len(l)]

\* scan: record, logs = logs[0], logs[1:]
NextRecord(l) == Head(l)

\* scan dropping the whole batch after its first record.
RestRecordsNone(l) == << >>

\* scan keeping the record it has taken in the batch.
RestRecordsSame(l) == l

RestRecords(l) == Tail(l)

\* process: whether the record goes to the output channel
Interesting(r, scanContract) == ~r.err /\ contractMatch(r.addr, scanContract)

\* scan, a batch is pending: take its first record and process it, up to
\* the send on lp.output
Process ==
    /\ pc = "body"
    /\ logs # <<>>
    /\ record' = NextRecord(logs)
    /\ logs' = RestRecords(logs)
    /\ \E r \in CacheTrxRecipient(cache, record'.TxHash) :
        /\ cache' = r.cache
        /\ res' = [called |-> TRUE, err |-> r.err, addr |-> r.addr]
        /\ pc' = IF Interesting(r, cfg.ScanContract) THEN "send" ELSE "select"
    /\ refresh' = "none"
    /\ processed' = Append(processed, record')
    /\ UNCHANGED << cfg, output, closed, topBlock, currentBlock, sigStop, wg,
                    tickC, infoC, emitted, call, scanned,
                    heads, stopCalled, blockedStop, headKnown, lastFail >>

\* process sending without blocking: the record is dropped when the channel is full.
SendOrDrop ==
    /\ pc = "send"
    /\ output' = (IF Len(output) < logBufferCapacity THEN Append(output, record) ELSE output)
    /\ emitted' = (IF Len(output) < logBufferCapacity THEN Append(emitted, record) ELSE emitted)
    /\ pc' = "select"
    /\ UNCHANGED << cfg, closed, topBlock, currentBlock, sigStop, wg, cache,
                    tickC, infoC, logs, record, call, res, scanned,
                    heads, stopCalled, blockedStop, refresh, headKnown, lastFail, processed >>

\* process: lp.output <- ev; blocks while the channel is full
Send ==
    /\ pc = "send"
    /\ Len(output) < logBufferCapacity
    /\ output' = Append(output, record)
    /\ emitted' = Append(emitted, record)
    /\ pc' = "select"
    /\ UNCHANGED << cfg, closed, topBlock, currentBlock, sigStop, wg, cache,
                    tickC, infoC, logs, record, call, res, scanned,
                    heads, stopCalled, blockedStop, refresh, headKnown, lastFail, processed >>

Next ==
    \/ Run
    \/ Stop
    \/ Tick
    \/ Info
    \/ Consume
    \/ SelectStop
    \/ SelectTick
    \/ SelectInfo
    \/ SelectDefault
    \/ NextLogsIdle
    \/ NextLogsFail
    \/ NextLogsOk
    \/ Process
    \/ Send

Spec == Init /\ [][Next]_vars

\* newPuller for a scan that starts at the burst block of a chain whose head
\* is that block, with a cache another scanner has filled with the recipient
\* of the burst transaction.
InitBurst ==
    /\ cfg = [StartBlock |-> BurstBlock, ScanContract |-> AddrA]
    /\ pc = "idle"
    /\ output = <<>>
    /\ closed = 0
    /\ topBlock = 0
    /\ currentBlock = cfg.StartBlock
    /\ sigStop = 0
    /\ wg = 0
    /\ cache = [t \in TxHashes |-> IF t = Hash(BurstBlock, 0) THEN AddrA ELSE NoEntry]
    /\ tickC = FALSE
    /\ infoC = FALSE
    /\ logs = <<>>
    /\ record = NoRecord
    /\ emitted = <<>>
    /\ call = NoCall
    /\ res = NoRes
    /\ scanned = [b \in Blocks |-> 0]
    /\ heads = {BurstBlock}
    /\ stopCalled = FALSE
    /\ blockedStop = FALSE
    /\ refresh = "none"
    /\ headKnown = FALSE
    /\ lastFail = NoFail
    /\ processed = << >>

\* The same worker on the chain with the burst.
SpecBurst == InitBurst /\ [][Next]_vars

\* newPuller for a scan of a chain whose head stays at MaxHead, with a start
\* block at, before or past block 1.
InitLive ==
    /\ cfg \in [StartBlock : 0..(MaxStart + 1), ScanContract : ScanContracts]
    /\ pc = "idle"
    /\ output = <<>>
    /\ closed = 0
    /\ topBlock = 0
    /\ currentBlock = cfg.StartBlock
    /\ sigStop = 0
    /\ wg = 0
    /\ cache = [t \in TxHashes |-> NoEntry]
    /\ tickC = FALSE
    /\ infoC = FALSE
    /\ logs = <<>>
    /\ record = NoRecord
    /\ emitted = <<>>
    /\ call = NoCall
    /\ res = NoRes
    /\ scanned = [b \in Blocks |-> 0]
    /\ heads = {MaxHead}
    /\ stopCalled = FALSE
    /\ blockedStop = FALSE
    /\ refresh = "none"
    /\ headKnown = FALSE
    /\ lastFail = NoFail
    /\ processed = << >>

\* The steps of the scan goroutine while no stop is requested: run starts it,
\* then select, nextLogs, process and the send to lp.output.
Worker ==
    \/ Run
    \/ SelectTick
    \/ SelectInfo
    \/ SelectDefault
    \/ NextLogsIdle
    \/ NextLogsFail
    \/ NextLogsOk
    \/ Process
    \/ Send

\* The program when stop is never called: the worker, the two tickers and
\* the consumer of the output stream.
NextLive ==
    \/ Worker
    \/ Tick
    \/ Info
    \/ Consume

\* The scan goroutine is scheduled whenever it can take a step (Go runtime);
\* the consumer keeps draining the output stream; a log request that is sent
\* again and again eventually succeeds.
Fairness ==
    /\ WF_vars(Worker)
    /\ WF_vars(Consume)
    /\ SF_vars(NextLogsOk)

SpecLive == InitLive /\ [][NextLive]_vars /\ Fairness

\* ------------------------------------------------------------ properties

\* A step in which the worker runs nextLogs.
NextLogsStep == pc = "body" /\ logs = << >> /\ pc' = "select"

\* A step in which nextLogs sends a log request to the chain client.
RequestStep == NextLogsStep /\ call'.kind \in {"ok", "fail"}

\* A step in which the worker takes a record of the batch and processes it.
ProcessStep == pc = "body" /\ logs # << >> /\ pc' # pc

\* A step in which a record goes into the output channel.
PushStep == emitted' # emitted

Min(a, b) == IF a < b THEN a ELSE b

\* C1 (as claimed): every log request [from, to] spans at most
\* defaultLogsWindowSize blocks and does not reach past topBlock.
C1_WindowBound ==
    call.kind \in {"ok", "fail"} =>
        /\ call.to - call.from + 1 <= defaultLogsWindowSize
        /\ call.to <= call.top

\* C2 (as claimed): after a successful log request the requested range is
\* [currentBlock, min(currentBlock + defaultLogsWindowSize - 1, topBlock)]
\* and the cursor is one past its end.
C2_FetchResult ==
    call.kind = "ok" =>
        /\ call.to = Min(call.from + defaultLogsWindowSize - 1, call.top)
        /\ currentBlock = call.to + 1

\* C3: currentBlock never decreases, and it increases only in a step in
\* which nextLogs sent a log request that succeeded.
C3_CursorMonotonic ==
    [][ /\ currentBlock' >= currentBlock
        /\ currentBlock' > currentBlock => (NextLogsStep /\ call'.kind = "ok")
      ]_vars

\* C3 witness: the head was lowered below the cursor after the cursor had
\* advanced, and the worker has run nextLogs since.
C3_Witness ==
    /\ currentBlock > cfg.StartBlock
    /\ topBlock + 1 < currentBlock
    /\ call.kind = "idle"

\* C4: a nextLogs call whose log request fails returns an empty batch and
\* leaves currentBlock, topBlock and the output stream as they were.
C4_NoProgressOnError ==
    [][ (NextLogsStep /\ call'.kind = "fail") =>
            /\ logs' = << >>
            /\ currentBlock' = currentBlock
            /\ topBlock' = topBlock
            /\ output' = output
            /\ emitted' = emitted
      ]_vars

\* C4 witness: a log request for a range that holds records has just failed.
C4_Witness ==
    /\ call.kind = "fail"
    /\ GetLogs(call.from, call.to) # << >>
    /\ currentBlock = call.from

\* C5: process sends the record to the output stream exactly when the
\* resolution succeeded with the configured address; it changes neither the
\* cursor nor the rest of the batch; and a record enters the stream only by
\* that send, and it is the record processed.
C5_FilterCorrect ==
    /\ [][ ProcessStep =>
            /\ res'.called
            /\ (pc' = "send") <=> (~res'.err /\ res'.addr = cfg.ScanContract)
            /\ record' = Head(logs)
            /\ logs' = Tail(logs)
            /\ currentBlock' = currentBlock
            /\ emitted' = emitted
            /\ output' = output
         ]_vars
    /\ [][ PushStep =>
            /\ pc = "send"
            /\ emitted' = Append(emitted, record)
            /\ output' = Append(output, record)
            /\ currentBlock' = currentBlock
            /\ logs' = logs
         ]_vars
    /\ [][ (pc = "send" /\ pc' # pc) => PushStep ]_vars

\* C5 witness: a record whose recipient resolved to the watched address has
\* been pushed.
C5_Witness ==
    /\ res.called
    /\ ~res.err
    /\ res.addr = cfg.ScanContract
    /\ emitted # << >>
    /\ emitted[Len(emitted)] = record
    /\ pc = "select"

\* C6: the output stream is closed exactly when the worker has terminated,
\* which it does only by taking a stop signal; it is closed once; nothing is
\* pushed after the close and no push is pending on a closed stream.
C6_ClosedOnce ==
    /\ [](closed = (IF pc = "done" THEN 1 ELSE 0))
    /\ [][ /\ closed' # closed => (pc = "select" /\ sigStop > 0 /\ sigStop' = sigStop - 1)
           /\ closed > 0 => (closed' = closed /\ emitted' = emitted /\ pc' = "done")
         ]_vars

\* C6 witness: the worker was stopped in the middle of a batch, after it had
\* pushed a record.
C6_Witness ==
    /\ pc = "done"
    /\ closed = 1
    /\ emitted # << >>
    /\ logs # << >>

\* C7 (as claimed): with a stop signal in the channel, the step the worker
\* takes at the top of the loop terminates it, whatever else is ready.
C7_StopAtBoundary ==
    [][ (pc = "select" /\ sigStop > 0 /\ pc' # pc) => pc' = "done" ]_vars

\* C8: the records pushed onto the output stream are in non-decreasing
\* block order, and those of one block are in the order the chain client
\* returned them (the order of their Index).
C8_OutputOrdered ==
    \A i, j \in 1..Len(emitted) :
        i < j =>
            \/ emitted[i].BlockNumber < emitted[j].BlockNumber
            \/ /\ emitted[i].BlockNumber = emitted[j].BlockNumber
               /\ emitted[i].Index < emitted[j].Index

\* C8 witness: two records of one block and a record of a later block, from
\* a later request, have been pushed.
C8_Witness ==
    /\ Len(emitted) >= 3
    /\ emitted[1].BlockNumber = emitted[2].BlockNumber
    /\ emitted[2].BlockNumber < emitted[3].BlockNumber
    /\ call.kind = "ok"
    /\ call.from > emitted[2].BlockNumber

\* C9: every block from the start block up to the cursor was covered by
\* exactly one successful log request and no other block by any; each
\* successful request starts at the cursor and moves it one past its end.
C9_ScannedOnce ==
    /\ [](\A b \in Blocks :
            scanned[b] = (IF cfg.StartBlock <= b /\ b < currentBlock THEN 1 ELSE 0))
    /\ [][ (NextLogsStep /\ call'.kind = "ok") =>
                /\ call'.from = currentBlock
                /\ call'.to >= call'.from
                /\ currentBlock' = call'.to + 1
         ]_vars

\* C9 witness: a second successful request has just been made.
C9_Witness ==
    /\ call.kind = "ok"
    /\ call.from > cfg.StartBlock
    /\ scanned[cfg.StartBlock] = 1
    /\ scanned[call.to] = 1

\* C10: nextLogs called with the cursor past the head sends no log request,
\* returns an empty batch and leaves the cursor; a log request is only sent
\* with the cursor at or below the head, and only a head refresh changes the
\* head.
C10_IdlePastHead ==
    /\ [][ (NextLogsStep /\ currentBlock > topBlock) =>
                /\ call'.kind = "idle"
                /\ logs' = << >>
                /\ currentBlock' = currentBlock
                /\ scanned' = scanned
         ]_vars
    /\ [][ RequestStep => currentBlock <= topBlock ]_vars
    /\ [][ topBlock' # topBlock => (pc = "select" /\ tickC /\ ~tickC') ]_vars

\* C10 witness: the worker has caught up with the head and its last nextLogs
\* call did nothing.
C10_Witness ==
    /\ call.kind = "idle"
    /\ currentBlock = topBlock + 1
    /\ currentBlock > cfg.StartBlock

\* C11: the first stop() call finds room in the signal channel and returns
\* without a step of the worker; until the worker takes that signal the
\* channel is full and a further stop() call cannot return; stop() can return
\* exactly when the channel has room; and the worker, once terminated, stays
\* terminated, whatever stop() calls follow.
C11_StopSignalling ==
    /\ [](~stopCalled => (sigStop = 0 /\ ENABLED Stop))
    /\ []((stopCalled /\ closed = 0) => sigStop = sigStopCapacity)
    /\ [](ENABLED Stop <=> sigStop < sigStopCapacity)
    /\ [][ sigStop' > sigStop => (pc' = pc /\ closed' = closed) ]_vars
    /\ [](closed <= 1)
    /\ [][ pc = "done" => (pc' = "done" /\ closed' = closed) ]_vars

\* C11 witness: a stop() call has returned while the worker runs and has not
\* taken the signal yet.
C11_Witness ==
    /\ stopCalled
    /\ sigStop = sigStopCapacity
    /\ Running
    /\ ~ENABLED Stop

\* C12 (as claimed): a head refresh whose head-height call fails leaves
\* topBlock and currentBlock as they were.
C12_HeadRefreshFailure ==
    [][ (pc = "select" /\ refresh' = "fail") =>
            /\ topBlock' = topBlock
            /\ currentBlock' = currentBlock
      ]_vars

\* The worker is blocked sending to the full output stream.
Blocked == pc = "send" /\ Len(output) = logBufferCapacity

\* C13 (as claimed): after a stop() call made while the worker was blocked on
\* the full output stream, the worker stays blocked until the consumer takes
\* a record, then completes the pending push, and the step it takes at the
\* top of the loop after that terminates it with the stream closed.
C13_StopDuringBackpressure ==
    /\ [][ (Blocked /\ output' = output) => (pc' = "send" /\ closed' = closed) ]_vars
    /\ [][ (pc = "send" /\ pc' # pc) => emitted' = Append(emitted, record) ]_vars
    /\ [][ (blockedStop /\ pc = "select" /\ pc' # pc) => (pc' = "done" /\ closed' = 1) ]_vars

\* C14: while the worker is blocked on the full output stream and the consumer
\* takes nothing, the worker stays there: no head refresh, no log request, no
\* change of the cursor, the batch or the pending record.  The worker leaves
\* the send only by delivering the pending record, which it can do as soon as
\* the stream has room.
C14_Backpressure ==
    /\ [][ (Blocked /\ output' = output) =>
                /\ pc' = "send"
                /\ topBlock' = topBlock
                /\ currentBlock' = currentBlock
                /\ refresh' = refresh
                /\ call' = call
                /\ logs' = logs
                /\ emitted' = emitted
         ]_vars
    /\ [][ pc = "send" =>
                /\ record' = record
                /\ \/ pc' = "send" /\ emitted' = emitted
                   \/ /\ pc' = "select"
                      /\ emitted' = Append(emitted, record)
                      /\ output' = Append(output, record)
         ]_vars
    /\ []((pc = "send" /\ Len(output) < logBufferCapacity) => ENABLED Send)

\* C14 witness: the worker is blocked on the full stream while both tickers
\* have fired.
C14_Witness ==
    /\ Blocked
    /\ tickC
    /\ infoC
    /\ ~ENABLED Send

\* C15: a nextLogs call that follows a failed log request, with no change of
\* topBlock in between, sends a log request again, for the same range; this
\* holds after any number of failures.
C15_RetrySameRange ==
    [][ (NextLogsStep /\ lastFail.failed) =>
            /\ call'.kind \in {"ok", "fail"}
            /\ call'.from = lastFail.from
            /\ call'.to = lastFail.to
      ]_vars

\* C15 witness: the retry of a failed request for a range of several blocks
\* has failed too.
C15_Witness ==
    /\ lastFail.failed
    /\ lastFail.retried
    /\ lastFail.to > lastFail.from
    /\ call.kind = "fail"

\* C16: a step of the loop body with a pending batch takes the first record
\* of the batch, passes it to process, leaves the others pending in their
\* order and sends no log request; the batch changes in no other way but by
\* a nextLogs call, which is made only with an empty batch.
C16_OneRecordPerIteration ==
    /\ [][ ProcessStep =>
                /\ record' = Head(logs)
                /\ logs' = Tail(logs)
                /\ processed' = Append(processed, Head(logs))
                /\ pc' \in {"send", "select"}
                /\ call = NoCall
                /\ call' = NoCall
                /\ scanned' = scanned
         ]_vars
    /\ [][ (logs' # logs \/ call' \notin {call, NoCall}) => (ProcessStep \/ NextLogsStep) ]_vars
    /\ [][ processed' # processed => ProcessStep ]_vars

\* C16 witness: the first record of a batch of three has been processed and
\* the other two are pending.
C16_Witness ==
    /\ res.called
    /\ call = NoCall
    /\ Len(logs) = 2
    /\ record.BlockNumber = logs[1].BlockNumber
    /\ record.Index + 1 = logs[1].Index

\* Whether the record belongs to a contract deployment.
IsDeployment(r) == TrxTo(r.TxHash) = << >>

\* C17 (as claimed): no record of a contract deployment is ever pushed onto
\* the output stream, whatever the watched address.
C17_DeploymentsDropped ==
    \A i \in 1..Len(emitted) : ~IsDeployment(emitted[i])

\* C17 (amended): with a watched address other than the zero address, no
\* record of a contract deployment is ever pushed onto the output stream.
C17_DeploymentsDroppedNonZero ==
    cfg.ScanContract # ZeroAddress =>
        /\ \A i \in 1..Len(emitted) : ~IsDeployment(emitted[i])
        /\ pc = "send" => ~IsDeployment(record)

\* C17 witness: a deployment's record resolved to the zero address and was
\* dropped.
C17_Witness ==
    /\ cfg.ScanContract # ZeroAddress
    /\ res.called
    /\ ~res.err
    /\ res.addr = ZeroAddress
    /\ IsDeployment(record)
    /\ pc = "select"

\* The records of all successful log requests so far, in the order returned.
Fetched == GetLogs(cfg.StartBlock, currentBlock - 1)

\* C18: the records passed to process, followed by the pending batch, are
\* the records the successful log requests returned, each once and in order;
\* a log request is sent only when all of them have been processed; after
\* termination the pending batch is never processed, and the cursor is past
\* its blocks.
C18_NoLoss ==
    /\ [](processed \o logs = Fetched)
    /\ [](\A i \in 1..Len(logs) : logs[i].BlockNumber < currentBlock)
    /\ [][ RequestStep => processed = Fetched ]_vars
    /\ [][ pc = "done" => (processed' = processed /\ logs' = logs) ]_vars

\* C18 witness: the worker terminated with part of a batch processed and the
\* rest pending.
C18_Witness ==
    /\ pc = "done"
    /\ processed # << >>
    /\ logs # << >>
    /\ processed[Len(processed)].BlockNumber = logs[1].BlockNumber

\* The worker has caught up with head height h and sends no log request.
CaughtUp(h) == currentBlock = h + 1 /\ call.kind \in {"none", "idle"}

\* C19 (as claimed): with no stop, a draining consumer and log requests that
\* eventually succeed, whenever topBlock settles at a value H the cursor
\* eventually is H + 1 and stays there with no further log request.
C19_CatchUp ==
    \A h \in {0, MaxHead} : <>[](topBlock = h) => <>[]CaughtUp(h)

\* C19 (amended): the same, for a cursor that never is past H + 1.
C19_CatchUpFromBehind ==
    \A h \in {0, MaxHead} :
        (<>[](topBlock = h) /\ [](currentBlock <= h + 1)) => <>[]CaughtUp(h)

\* C19 witness: the worker has scanned every block from the start block to
\* the head in more than one request and is idle at the head.
C19_Witness ==
    /\ topBlock = MaxHead
    /\ currentBlock = MaxHead + 1
    /\ call.kind = "idle"
    /\ \A b \in cfg.StartBlock..MaxHead : scanned[b] = 1
    /\ cfg.StartBlock + defaultLogsWindowSize < MaxHead

\* C20 (as claimed): no log request is sent before a head refresh has
\* succeeded.
C20_NoFetchBeforeHead ==
    [][ RequestStep => headKnown ]_vars

\* C20 (amended): with a start block of at least 1, no log request is sent
\* before a head refresh has succeeded.
C20_NoFetchBeforeHeadFromOne ==
    [][ (RequestStep /\ cfg.StartBlock >= 1) => (headKnown /\ topBlock >= 1) ]_vars

\* C20 witness: with a start block of at least 1 the worker has run nextLogs
\* after a head refresh that failed and before any that succeeded, and has
\* sent nothing.
C20_Witness ==
    /\ cfg.StartBlock >= 1
    /\ ~headKnown
    /\ topBlock = 0
    /\ call.kind = "idle"

====
